---- MODULE Spec2Model ----
(***************************************************************************)
(* Model of the advisor service of pixperk/whethergoodweather:             *)
(*   services/advisor (src/unnamed/part_002): geocodeCity, GetAdvice,      *)
(*     StreamAdvice, generateAdvice, streamAdviceGeneration                *)
(*   services/weather (src/unnamed/part_001): GetCurrentWeather            *)
(*   cmd/cli (src/cmd/cli/main.go): getStreamingAdvice, the consumer of    *)
(*     the fragment stream                                                 *)
(*                                                                         *)
(* One advice request is followed from its arrival to its return.  The     *)
(* handler is cut at its suspension points (the outbound HTTP calls, the   *)
(* generation call, iter.Next); the caller's cancellation and the CLI's    *)
(* Recv loop interleave with it.                                           *)
(*                                                                         *)
(* Strings that the code only compares or searches (error messages, city   *)
(* names, text chunks) are sequences of tokens; strings.Contains is the    *)
(* contiguous-subsequence test on them, string concatenation is \o.        *)
(* Floats are integers scaled by a power of ten.                           *)
(***************************************************************************)
EXTENDS Integers, Sequences, FiniteSets, TLC

VARIABLES
    mode,             \* "none" | "unary" (GetAdvice) | "stream" (StreamAdvice)
    cities,           \* req.Cities: sequence of city.Location
    pc,               \* position of the handler
    i,                \* index of the city the range loop is at
    coord,            \* lat, lon returned by geocodeCity for city i
    weatherData,      \* the handler's weatherData slice
    calls,            \* log of the calls the handler made, with their outcome
    sent,             \* fragments accepted by stream.Send, in order
    result,           \* what the handler returned
    advisorRequests,  \* counter vector advisor_requests_total{status}
    weatherRequests,  \* counter vector weather_requests_total{status}
    ctxCancelled,     \* the request context is done (deadline or disconnect)
    cancelPc,         \* handler position when the context was cancelled
    cancelCalls,      \* Len(calls) when the context was cancelled
    cancelGen,        \* genCount when the context was cancelled
    cancelSent,       \* Len(sent) when the context was cancelled
    iterEnd,          \* how the generation iterator ended
    genCount,         \* responses the generation iterator has returned
    cliPc,            \* position of the CLI's getStreamingAdvice
    cliNext,          \* index of the next fragment stream.Recv returns
    cliGotFinal,      \* the CLI received a fragment with IsComplete
    deadline,         \* the caller's context carries a deadline
    genTexts,         \* the text the generation stream has produced, joined
    genFirst,         \* what generateAdvice extracts from the same responses
    srv,              \* the server process: "serving" or "exited"
    closed,           \* how often advisorSvc.Close has run
    other,            \* the locals of a second request, while it is not running
    prompt            \* the prompt the composer submitted to the backend

vars == <<mode, cities, pc, i, coord, weatherData, calls, sent, result,
          advisorRequests, weatherRequests, ctxCancelled, cancelPc,
          cancelCalls, cancelGen, cancelSent, iterEnd, genCount, cliPc, cliNext,
          cliGotFinal, deadline, genTexts, genFirst, srv, closed, other, prompt>>

(***************************************************************************)
(* Bounds of the model.                                                    *)
(***************************************************************************)
MaxCities == 2      \* longest city list of a request
MaxResp == 2        \* most responses the generation iterator yields
MaxCode == 99       \* the weather codes -1..MaxCode are looked up

(***************************************************************************)
(* Strings as token sequences.                                             *)
(***************************************************************************)
\* strings.Contains(s, sub)
Contains(s, sub) ==
    \E k \in 0..(Len(s) - Len(sub)) : SubSeq(s, k + 1, k + Len(sub)) = sub

(***************************************************************************)
(* Coordinate resolver: geocodeCity's table and the geocoding backend.     *)
(* Latitudes and longitudes are scaled by 10^4.                            *)
(***************************************************************************)
CityNames == {"New York", "london"}     \* names a request may carry

\* the keys of the cityCoords map literal
CuratedNames ==
    {"New York", "London", "Tokyo", "Paris", "Los Angeles", "Chicago", "Sydney"}

cityCoords ==
    [n \in CuratedNames |->
        CASE n = "New York"    -> [lat |-> 407128, lon |-> -740060]
          [] n = "London"      -> [lat |-> 515074, lon |-> -1278]
          [] n = "Tokyo"       -> [lat |-> 356762, lon |-> 1396503]
          [] n = "Paris"       -> [lat |-> 488566, lon |-> 23522]
          [] n = "Los Angeles" -> [lat |-> 340522, lon |-> -1182437]
          [] n = "Chicago"     -> [lat |-> 418781, lon |-> -876298]
          [] n = "Sydney"      -> [lat |-> -338688, lon |-> 1512093]]

NoCoord == [lat |-> 0, lon |-> 0]

\* the map lookup with the name's first letter folded to upper case
LookupFoldCase(name) ==
    LET key == IF name = "london" THEN "London" ELSE name IN
    IF key \in DOMAIN cityCoords THEN <<cityCoords[key]>> ELSE <<>>

\* coords, exists := cityCoords[city.Location]: the entry, if the key exists
Lookup(name) ==
    IF name \in DOMAIN cityCoords THEN <<cityCoords[name]>> ELSE <<>>

StatusOK == 200
BadStatuses == {404, 503}

TransportErr == <<"dial", "tcp", ":", "i/o", "timeout">>
DecodeErr == <<"invalid", "character">>

GeoHit1 == [lat |-> 515085, lon |-> -1257]

\* What client.Get and the JSON decoder can produce for a geocoding query:
\* a transport error, a non-200 status, an undecodable body, or a decoded
\* GeocodeResponse; the query asks for count=1, so it holds at most one result.
GeoResponses ==
    {[err |-> TRUE, StatusCode |-> 0, bodyOk |-> FALSE, Results |-> <<>>]}
    \cup {[err |-> FALSE, StatusCode |-> s, bodyOk |-> FALSE, Results |-> <<>>] :
            s \in BadStatuses}
    \cup {[err |-> FALSE, StatusCode |-> StatusOK, bodyOk |-> FALSE, Results |-> <<>>]}
    \cup {[err |-> FALSE, StatusCode |-> StatusOK, bodyOk |-> TRUE, Results |-> r] :
            r \in {<<>>, <<GeoHit1>>}}

\* the tail of the "location not found" message: the curated names as a hint
TryHint ==
    <<"(", "try", ":", "New York", ",", "London", ",", "Tokyo", ",", "Paris", ",",
      "Los Angeles", ",", "Chicago", ",", "Sydney", ")">>

\* geocodeCity without its len(Results) == 0 test: the zero coordinate, no error
GeocodeOutcomeNoEmptyCheck(city, resp) ==
    IF resp.err
    THEN [ok |-> FALSE, coord |-> NoCoord,
          err |-> <<"geocoding", "failed", ":">> \o TransportErr]
    ELSE IF resp.StatusCode # StatusOK
    THEN [ok |-> FALSE, coord |-> NoCoord,
          err |-> <<"geocoding", "API", "returned", "status", ToString(resp.StatusCode)>>]
    ELSE IF ~resp.bodyOk
    THEN [ok |-> FALSE, coord |-> NoCoord,
          err |-> <<"decode", "failed", ":">> \o DecodeErr]
    ELSE [ok |-> TRUE,
          coord |-> IF Len(resp.Results) = 0 THEN NoCoord ELSE resp.Results[1],
          err |-> <<>>]

\* geocodeCity after client.Get returned resp: [ok, coord, err]
GeocodeOutcome(city, resp) ==
    IF resp.err
    THEN [ok |-> FALSE, coord |-> NoCoord,
          err |-> <<"geocoding", "failed", ":">> \o TransportErr]
    ELSE IF resp.StatusCode # StatusOK
    THEN [ok |-> FALSE, coord |-> NoCoord,
          err |-> <<"geocoding", "API", "returned", "status", ToString(resp.StatusCode)>>]
    ELSE IF ~resp.bodyOk
    THEN [ok |-> FALSE, coord |-> NoCoord,
          err |-> <<"decode", "failed", ":">> \o DecodeErr]
    ELSE IF Len(resp.Results) = 0
    THEN [ok |-> FALSE, coord |-> NoCoord,
          err |-> <<"location", "not", "found", ":", city>> \o TryHint]
    ELSE [ok |-> TRUE, coord |-> resp.Results[1], err |-> <<>>]

(***************************************************************************)
(* Weather fetcher: GetCurrentWeather.  Temperature and wind speed are     *)
(* scaled by 100 in the provider's body and by 10 once formatted "%.1f";   *)
(* coordinates are scaled by 100 once formatted "%.2f".                    *)
(***************************************************************************)
\* x / d rounded to the nearest integer (fmt's rounding of a decimal)
RoundDiv(x, d) ==
    IF x >= 0 THEN (x + d \div 2) \div d ELSE -((-x + d \div 2) \div d)

MappedCodes ==
    {0, 1, 2, 3, 45, 48, 51, 53, 55, 61, 63, 65, 71, 73, 75, 80, 81, 82, 95}

descriptions ==
    [c \in MappedCodes |->
        CASE c = 0 -> "clear sky"        [] c = 1 -> "mainly clear"
          [] c = 2 -> "partly cloudy"    [] c = 3 -> "overcast"
          [] c = 45 -> "fog"             [] c = 48 -> "depositing rime fog"
          [] c = 51 -> "light drizzle"   [] c = 53 -> "moderate drizzle"
          [] c = 55 -> "dense drizzle"   [] c = 61 -> "slight rain"
          [] c = 63 -> "moderate rain"   [] c = 65 -> "heavy rain"
          [] c = 71 -> "slight snow"     [] c = 73 -> "moderate snow"
          [] c = 75 -> "heavy snow"      [] c = 80 -> "rain showers"
          [] c = 81 -> "moderate rain showers"
          [] c = 82 -> "violent rain showers"
          [] c = 95 -> "thunderstorm"]

\* the lookup without its ok test: a missing key yields the map's zero value
getWeatherDescriptionNoDefault(code) ==
    IF code \in DOMAIN descriptions THEN descriptions[code] ELSE ""

getWeatherDescription(code) ==
    IF code \in DOMAIN descriptions THEN descriptions[code] ELSE "unknown"

NoReading ==
    [Temperature |-> 0, Humidity |-> 0, WindSpeed |-> 0, WindDir |-> 0, WeatherCode |-> 0]

\* bodies the provider may return: a mapped and an unmapped weather code
Readings ==
    {[Temperature |-> 2146, Humidity |-> 60, WindSpeed |-> 350, WindDir |-> 180,
      WeatherCode |-> 0],
     [Temperature |-> -305, Humidity |-> 93, WindSpeed |-> 1225, WindDir |-> 10,
      WeatherCode |-> 42]}

WeatherResponses ==
    {[err |-> TRUE, StatusCode |-> 0, bodyOk |-> FALSE, Current |-> NoReading]}
    \cup {[err |-> FALSE, StatusCode |-> s, bodyOk |-> FALSE, Current |-> NoReading] :
            s \in BadStatuses}
    \cup {[err |-> FALSE, StatusCode |-> StatusOK, bodyOk |-> FALSE, Current |-> NoReading]}
    \cup {[err |-> FALSE, StatusCode |-> StatusOK, bodyOk |-> TRUE, Current |-> r] :
            r \in Readings}

\* the WeatherResponse message built from the request and the decoded body
WeatherResponse(req, cur) ==
    [Location    |-> <<RoundDiv(req.lat, 100), RoundDiv(req.lon, 100)>>,
     Temperature |-> cur.Temperature,
     FeelsLike   |-> cur.Temperature,
     TempMin     |-> cur.Temperature,
     TempMax     |-> cur.Temperature,
     Pressure    |-> 1013,
     Humidity    |-> cur.Humidity,
     WindSpeed   |-> cur.WindSpeed,
     WindDeg     |-> cur.WindDir,
     Description |-> getWeatherDescription(cur.WeatherCode)]

NoWeather == WeatherResponse(NoCoord, NoReading)

\* GetCurrentWeather after client.Get returned resp: [ok, resp, err, status]
\* status is the label of weatherRequests that is incremented
WeatherOutcome(req, resp) ==
    IF resp.err
    THEN [ok |-> FALSE, resp |-> NoWeather,
          err |-> <<"API", "request", "failed", ":">> \o TransportErr]
    ELSE IF resp.StatusCode # StatusOK
    THEN [ok |-> FALSE, resp |-> NoWeather,
          err |-> <<"API", "status", ":", ToString(resp.StatusCode)>>]
    ELSE IF ~resp.bodyOk
    THEN [ok |-> FALSE, resp |-> NoWeather,
          err |-> <<"decode", "failed", ":">> \o DecodeErr]
    ELSE [ok |-> TRUE, resp |-> WeatherResponse(req, resp.Current), err |-> <<>>]

\* the weatherInfo line the handlers format from a WeatherResponse
WeatherInfo(w) ==
    [City      |-> w.Location,
     Temp      |-> RoundDiv(w.Temperature, 10),
     Condition |-> w.Description,
     Humidity  |-> w.Humidity,
     Wind      |-> RoundDiv(w.WindSpeed, 10)]

(***************************************************************************)
(* The prompt of the two composers: a template around the summaries, which *)
(* strings.Join puts on one line each.  A prompt is [head, body, tail];    *)
(* an entry of body is a summary or the separator between two of them.     *)
(* The token "NL" is a newline of the template.                            *)
(***************************************************************************)
NoSummary == WeatherInfo(NoWeather)

Line(info) == [sep |-> FALSE, line |-> info]
Newline == [sep |-> TRUE, line |-> NoSummary]

\* strings.Join(elems, sep): the elements with sep between any two of them
RECURSIVE Join(_, _)
Join(elems, sep) ==
    IF elems = <<>> THEN <<>>
    ELSE IF Len(elems) = 1 THEN <<Line(elems[1])>>
    ELSE <<Line(Head(elems)), sep>> \o Join(Tail(elems), sep)

NoPrompt == [head |-> <<>>, body |-> <<>>, tail |-> <<>>]

\* the prompt of streamAdviceGeneration with the summaries run together,
\* no separator between them
streamPromptUnseparated(data) ==
    [head |-> <<"Weather advisor. Based on this data provide practical advice:",
                "NL", "NL">>,
     body |-> [k \in 1..Len(data) |-> Line(data[k])],
     tail |-> <<"NL", "NL",
                "Include: summary, clothing advice, activity suggestions, warnings. Keep it concise.">>]

\* prompt := fmt.Sprintf(..., strings.Join(weatherData, NL)) in generateAdvice
generateAdvicePrompt(data) ==
    [head |-> <<"Weather advisor. Based on this data provide practical advice:",
                "NL", "NL">>,
     body |-> Join(data, Newline),
     tail |-> <<"NL", "NL",
                "Include: summary, clothing advice, activity suggestions, warnings. Keep it concise.">>]

\* prompt := fmt.Sprintf(..., strings.Join(weatherData, NL)) in
\* streamAdviceGeneration
streamAdviceGenerationPrompt(data) ==
    [head |-> <<"Weather advisor. Based on this data provide practical advice:",
                "NL", "NL">>,
     body |-> Join(data, Newline),
     tail |-> <<"NL", "NL",
                "Include: summary, clothing advice, activity suggestions, warnings. Keep it concise.">>]

(***************************************************************************)
(* Generation backend: what GenerateContent and the stream iterator's Next *)
(* can return.  A part is a genai.Text or some other genai.Part; a         *)
(* candidate's Content is a pointer and may be nil.                        *)
(***************************************************************************)
TextPart(t) == [kind |-> "Text", text |-> t]
BlobPart == [kind |-> "Blob", text |-> <<>>]

NilContent == [nil |-> TRUE, Parts |-> <<>>]
Content(parts) == [nil |-> FALSE, Parts |-> parts]

\* the Content of one candidate: nil, without parts, an empty text, a text,
\* a non-text part before a text, two texts
ContentSet ==
    {NilContent,
     Content(<<>>),
     Content(<<TextPart(<<>>)>>),
     Content(<<TextPart(<<"Bring">>)>>),
     Content(<<BlobPart, TextPart(<<"umbrella">>)>>),
     Content(<<TextPart(<<"Bring">>), TextPart(<<"umbrella">>)>>)}

\* the Candidates slice of a GenerateContentResponse (each entry: its
\* Content): none, one, or two of which the first is without text or a text
CandSeqs ==
    {<<>>}
    \cup {<<c>> : c \in ContentSet}
    \cup {<<Content(<<>>), c>> : c \in ContentSet}
    \cup {<<Content(<<TextPart(<<"Bring">>)>>), c>> : c \in ContentSet}

\* google.golang.org/api/iterator.Done, the iterator's end-of-stream value
IteratorDone == <<"no", "more", "items", "in", "iterator">>

ErrUnexpectedEOF == <<"rpc error:", "code = Unavailable", "desc =", "unexpected", "EOF">>
ErrQuota == <<"googleapi:", "Error", "429", ":", "quota", "exceeded">>
ErrCanceled == <<"rpc error:", "code = Canceled", "desc =", "context", "canceled">>

\* errors of the backend itself
BackendErrors == {ErrUnexpectedEOF, ErrQuota}

\* errors stream.Send returns once the caller is gone
SendErrors ==
    {ErrCanceled,
     <<"rpc error:", "code = Unavailable", "desc =", "transport", "is", "closing">>}

RECURSIVE ConcatAll(_)
ConcatAll(ts) == IF ts = <<>> THEN <<>> ELSE Head(ts) \o ConcatAll(Tail(ts))

\* the texts of the genai.Text parts of a Parts slice, in order
RECURSIVE TextsOf(_)
TextsOf(parts) ==
    IF parts = <<>> THEN <<>>
    ELSE (IF Head(parts).kind = "Text" THEN <<Head(parts).text>> ELSE <<>>)
         \o TextsOf(Tail(parts))

\* the text generateAdvice extracts from a response: the text parts of the
\* first candidate, joined
AdviceOf(cands) ==
    IF cands = <<>> \/ cands[1].nil THEN <<>> ELSE ConcatAll(TextsOf(cands[1].Parts))

\* the text segments a response of the backend carries: the text parts of
\* all its candidates, in order
RECURSIVE SegmentsOf(_)
SegmentsOf(cands) ==
    IF cands = <<>> THEN <<>>
    ELSE (IF Head(cands).nil THEN <<>> ELSE TextsOf(Head(cands).Parts))
         \o SegmentsOf(Tail(cands))

\* generateAdvice without its len(resp.Candidates) == 0 test: a response
\* without candidates yields an empty advice
GenerateOutcomeNoCandCheck(err, cands) ==
    IF err # <<>>
    THEN [kind |-> "error", err |-> <<"Gemini", "API", "failed", ":">> \o err,
          advice |-> <<>>]
    ELSE IF Len(cands) # 0 /\ cands[1].nil
    THEN [kind |-> "panic", err |-> <<>>, advice |-> <<>>]
    ELSE [kind |-> "ok", err |-> <<>>, advice |-> AdviceOf(cands)]

\* generateAdvice once GenerateContent returned: err is the call's error
\* (<<>> for nil), cands the response's Candidates
GenerateOutcome(err, cands) ==
    IF err # <<>>
    THEN [kind |-> "error", err |-> <<"Gemini", "API", "failed", ":">> \o err,
          advice |-> <<>>]
    ELSE IF Len(cands) = 0
    THEN [kind |-> "error", err |-> <<"no", "response", "generated">>, advice |-> <<>>]
    ELSE IF cands[1].nil
    THEN [kind |-> "panic", err |-> <<>>, advice |-> <<>>]
    ELSE [kind |-> "ok", err |-> <<>>, advice |-> AdviceOf(cands)]

\* streamAdviceGeneration's two nested range loops over one response: the
\* texts it hands to stream.Send, in order, up to a nil Content
RECURSIVE ChunksOf(_)
ChunksOf(cands) ==
    IF cands = <<>> \/ Head(cands).nil THEN <<>>
    ELSE TextsOf(Head(cands).Parts) \o ChunksOf(Tail(cands))

\* some candidate of the response has a nil Content (the loop dereferences it)
HitsNil(cands) == \E k \in 1..Len(cands) : cands[k].nil

\* the test streamAdviceGeneration applies to iter.Next's error
IsEndOfStream(msg) ==
    Contains(msg, <<"EOF">>) \/ Contains(msg, <<"iterator", "stopped">>)

Fragment(chunk, complete) == [Chunk |-> chunk, IsComplete |-> complete]

Fragments(chunks) == [k \in 1..Len(chunks) |-> Fragment(chunks[k], FALSE)]

(***************************************************************************)
(* The handlers GetAdvice and StreamAdvice.                                *)
(***************************************************************************)
NoResp == [err |-> FALSE, StatusCode |-> 0, bodyOk |-> FALSE, n |-> 0]

Call(op, city) == [op |-> op, city |-> city, st |-> "pending", resp |-> NoResp]

\* the last call of the log has returned
Returned(log, ok, resp, n) ==
    [log EXCEPT ![Len(log)] =
        [@ EXCEPT !.st = IF ok THEN "ok" ELSE "fail",
                  !.resp = [err |-> resp.err, StatusCode |-> resp.StatusCode,
                            bodyOk |-> resp.bodyOk, n |-> n]]]

NoResult == [status |-> "none", err |-> <<>>, advice |-> <<>>]

Inc(counter, label) == [counter EXCEPT ![label] = @ + 1]

\* a request's own state: the handler's parameters and local variables, its
\* position, what it has sent and returned, and its caller's state
Locals ==
    [mode |-> mode, cities |-> cities, pc |-> pc, i |-> i, coord |-> coord,
     weatherData |-> weatherData, calls |-> calls, sent |-> sent, result |-> result,
     ctxCancelled |-> ctxCancelled, cancelPc |-> cancelPc, cancelCalls |-> cancelCalls,
     cancelGen |-> cancelGen, cancelSent |-> cancelSent, iterEnd |-> iterEnd,
     genCount |-> genCount, cliPc |-> cliPc, cliNext |-> cliNext,
     cliGotFinal |-> cliGotFinal, deadline |-> deadline, genTexts |-> genTexts,
     genFirst |-> genFirst, prompt |-> prompt]

\* the locals of a request that has not arrived yet
NoRequest ==
    [mode |-> "none", cities |-> <<>>, pc |-> "idle", i |-> 0, coord |-> NoCoord,
     weatherData |-> <<>>, calls |-> <<>>, sent |-> <<>>, result |-> NoResult,
     ctxCancelled |-> FALSE, cancelPc |-> "none", cancelCalls |-> 0,
     cancelGen |-> 0, cancelSent |-> 0, iterEnd |-> "none",
     genCount |-> 0, cliPc |-> "off", cliNext |-> 1,
     cliGotFinal |-> FALSE, deadline |-> FALSE, genTexts |-> <<>>,
     genFirst |-> <<>>, prompt |-> NoPrompt]

Init ==
    /\ mode = "none"
    /\ cities = <<>>
    /\ pc = "idle"
    /\ i = 0
    /\ coord = NoCoord
    /\ weatherData = <<>>
    /\ calls = <<>>
    /\ sent = <<>>
    /\ result = NoResult
    /\ advisorRequests = [success |-> 0, error |-> 0]
    /\ weatherRequests = [success |-> 0, error |-> 0]
    /\ ctxCancelled = FALSE
    /\ cancelPc = "none"
    /\ cancelCalls = 0
    /\ cancelGen = 0
    /\ cancelSent = 0
    /\ iterEnd = "none"
    /\ genCount = 0
    /\ cliPc = "off"
    /\ cliNext = 1
    /\ cliGotFinal = FALSE
    /\ deadline = FALSE
    /\ genTexts = <<>>
    /\ genFirst = <<>>
    /\ srv = "serving"
    /\ closed = 0
    /\ other = NoRequest
    /\ prompt = NoPrompt

\* what no step of a handler or of its caller changes once the request runs
frame == <<deadline, genTexts, genFirst, srv, closed, other, prompt>>

cancelVars == <<ctxCancelled, cancelPc, cancelCalls, cancelGen, cancelSent>>
cliVars == <<cliPc, cliNext, cliGotFinal>>

\* the handler returns an error without recording the outcome
ReturnErrorUncounted(err) ==
    /\ pc' = "done"
    /\ result' = [status |-> "error", err |-> err, advice |-> <<>>]
    /\ UNCHANGED advisorRequests

\* the handler returns err: advisorRequests{"error"} is incremented
ReturnError(err) ==
    /\ pc' = "done"
    /\ result' = [status |-> "error", err |-> err, advice |-> <<>>]
    /\ advisorRequests' = Inc(advisorRequests, "error")

\* the handler returns a response (GetAdvice) or nil (StreamAdvice)
ReturnSuccess(advice) ==
    /\ pc' = "done"
    /\ result' = [status |-> "ok", err |-> <<>>, advice |-> advice]
    /\ advisorRequests' = Inc(advisorRequests, "success")

\* a nil dereference in the handler's goroutine: the server process dies
Panic ==
    /\ pc' = "crashed"
    /\ result' = [status |-> "panic", err |-> <<>>, advice |-> <<>>]
    /\ UNCHANGED advisorRequests

\* a request arrives: GetAdvice (unary) or StreamAdvice (stream).  Its
\* context has a deadline (d) if the caller set one (the CLI does, with
\* context.WithTimeout; cmd/client and cmd/stream-client pass
\* context.Background()); the server adds none.
StartRequest(m, cs, d) ==
    /\ pc = "idle"
    /\ srv = "serving"
    /\ deadline' = d
    /\ mode' = m
    /\ cities' = cs
    /\ i' = 1
    /\ pc' = "loop"
    /\ cliPc' = IF m = "stream" THEN "recv" ELSE cliPc
    /\ UNCHANGED <<coord, weatherData, calls, sent, result, advisorRequests,
                   weatherRequests, cancelVars, iterEnd, genCount, cliNext,
                   cliGotFinal, genTexts, genFirst, srv, closed, other, prompt>>

\* the range loop reaches city i and calls geocodeCity: a curated name
\* returns at once, any other name issues the geocoding request
ResolveCity ==
    /\ pc = "loop"
    /\ i <= Len(cities)
    /\ IF Lookup(cities[i]) # <<>>
       THEN /\ calls' = Append(calls, [Call("resolve", i) EXCEPT !.st = "ok"])
            /\ coord' = Lookup(cities[i])[1]
            /\ pc' = "fetch"
       ELSE /\ calls' = calls \o <<Call("resolve", i), Call("geocodeHTTP", i)>>
            /\ coord' = coord
            /\ pc' = "geo_wait"
    /\ UNCHANGED <<mode, cities, i, weatherData, sent, result, advisorRequests,
                   weatherRequests, cancelVars, iterEnd, genCount, cliVars, frame>>

\* the handler's err != nil branch after geocodeCity, continuing with the
\* next city instead of returning
GeocodeFailedSkips(err) ==
    /\ i' = i + 1
    /\ pc' = "loop"
    /\ UNCHANGED <<result, advisorRequests>>

\* the handler's err != nil branch after geocodeCity, calling geocodeCity
\* for the same city once more before giving up
GeocodeFailedRetries(err) ==
    IF Cardinality({k \in DOMAIN calls : calls[k].op = "resolve" /\ calls[k].city = i}) < 2
    THEN /\ i' = i
         /\ pc' = "loop"
         /\ UNCHANGED <<result, advisorRequests>>
    ELSE /\ ReturnError(<<"geocoding", "failed", "for", cities[i], ":">> \o err)
         /\ i' = i

\* the handler's err != nil branch after geocodeCity
GeocodeFailed(err) ==
    /\ ReturnError(<<"geocoding", "failed", "for", cities[i], ":">> \o err)
    /\ i' = i

\* the geocoding request returns resp; geocodeCity returns to the handler
GeocodeReturn(resp) ==
    /\ pc = "geo_wait"
    /\ LET out == GeocodeOutcome(cities[i], resp) IN
       /\ calls' = [Returned(calls, out.ok, resp, Len(resp.Results))
                       EXCEPT ![Len(calls) - 1].st = IF out.ok THEN "ok" ELSE "fail"]
       /\ IF out.ok
          THEN /\ coord' = out.coord
               /\ pc' = "fetch"
               /\ UNCHANGED <<i, result, advisorRequests>>
          ELSE /\ GeocodeFailed(out.err)
               /\ coord' = coord
    /\ UNCHANGED <<mode, cities, weatherData, sent, weatherRequests, cancelVars,
                   iterEnd, genCount, cliVars, frame>>

\* the handler calls weatherSvc.GetCurrentWeather, which issues its request
FetchStart ==
    /\ pc = "fetch"
    /\ calls' = Append(calls, Call("fetch", i))
    /\ pc' = "fetch_wait"
    /\ UNCHANGED <<mode, cities, i, coord, weatherData, sent, result,
                   advisorRequests, weatherRequests, cancelVars, iterEnd, genCount,
                   cliVars, frame>>

\* the handler's err != nil branch after GetCurrentWeather, continuing with
\* the next city instead of returning
WeatherFailedSkips(err) ==
    /\ i' = i + 1
    /\ pc' = "loop"
    /\ UNCHANGED <<result, advisorRequests>>

\* the handler's err != nil branch after GetCurrentWeather, formatting the
\* request's first city instead of the loop's
WeatherFailedFirstCity(err) ==
    /\ ReturnError(<<"weather", "request", "failed", "for", cities[1], ":">> \o err)
    /\ i' = i

\* the handler's err != nil branch after GetCurrentWeather
WeatherFailed(err) ==
    /\ ReturnError(<<"weather", "request", "failed", "for", cities[i], ":">> \o err)
    /\ i' = i

\* the new summary put in front of the ones collected so far
PrependSummary(data, info) == <<info>> \o data

\* weatherData = append(weatherData, weatherInfo)
AppendSummary(data, info) == Append(data, info)

\* the weather request returns resp; GetCurrentWeather returns to the handler
FetchReturn(resp) ==
    /\ pc = "fetch_wait"
    /\ LET out == WeatherOutcome(coord, resp) IN
       /\ calls' = Returned(calls, out.ok, resp, 0)
       /\ weatherRequests' = Inc(weatherRequests, IF out.ok THEN "success" ELSE "error")
       /\ IF out.ok
          THEN /\ weatherData' = AppendSummary(weatherData, WeatherInfo(out.resp))
               /\ i' = i + 1
               /\ pc' = "loop"
               /\ UNCHANGED <<result, advisorRequests>>
          ELSE /\ WeatherFailed(out.err)
               /\ UNCHANGED weatherData
    /\ UNCHANGED <<mode, cities, coord, sent, cancelVars, iterEnd, genCount, cliVars, frame>>

\* the range loop is over: the handler calls its composer, which builds the
\* prompt and calls GenerateContent or GenerateContentStream
Compose ==
    /\ pc = "loop"
    /\ i > Len(cities)
    /\ calls' = Append(calls, Call(IF mode = "unary" THEN "generate" ELSE "generateStream", 0))
    /\ prompt' = IF mode = "unary" THEN generateAdvicePrompt(weatherData)
                                   ELSE streamAdviceGenerationPrompt(weatherData)
    /\ pc' = IF mode = "unary" THEN "gen_wait" ELSE "iter_next"
    /\ UNCHANGED <<mode, cities, i, coord, weatherData, sent, result,
                   advisorRequests, weatherRequests, cancelVars, iterEnd, genCount,
                   cliVars, deadline, genTexts, genFirst, srv, closed, other>>

\* GenerateContent returns to generateAdvice: an error (a cancelled context
\* makes the call fail with ErrCanceled) or a response with candidates
GenerateReturn(err, cands) ==
    /\ pc = "gen_wait"
    /\ err = ErrCanceled => ctxCancelled
    /\ LET out == GenerateOutcome(err, cands) IN
       /\ calls' = Returned(calls, out.kind = "ok", [NoResp EXCEPT !.err = (err # <<>>)],
                            Len(cands))
       /\ CASE out.kind = "ok" -> ReturnSuccess(out.advice)
            [] out.kind = "error" ->
                 ReturnError(<<"advice", "generation", "failed", ":">> \o out.err)
            [] out.kind = "panic" -> Panic
    /\ UNCHANGED <<mode, cities, i, coord, weatherData, sent, weatherRequests,
                   cancelVars, iterEnd, genCount, cliVars, frame>>

\* iter.Next returns a response: every text part of every candidate is sent
\* as a chunk; stream.Send fails once the context is cancelled
IterResponse(cands) ==
    /\ pc = "iter_next"
    /\ genCount < MaxResp
    /\ genCount' = genCount + 1
    /\ genTexts' = genTexts \o ConcatAll(SegmentsOf(cands))
    /\ genFirst' = genFirst \o AdviceOf(cands)
    /\ IF ctxCancelled /\ ChunksOf(cands) # <<>>
       THEN /\ \E sendErr \in SendErrors :
                   ReturnError(<<"advice", "generation", "failed", ":",
                                 "failed", "to", "send", "chunk", ":">> \o sendErr)
            /\ calls' = Returned(calls, FALSE, NoResp, genCount + 1)
            /\ sent' = sent
       ELSE /\ sent' = sent \o Fragments(ChunksOf(cands))
            /\ IF HitsNil(cands)
               THEN /\ Panic
                    /\ calls' = Returned(calls, FALSE, NoResp, genCount + 1)
               ELSE /\ UNCHANGED <<pc, result, advisorRequests, calls>>
    /\ UNCHANGED <<mode, cities, i, coord, weatherData, weatherRequests, cancelVars,
                   iterEnd, cliVars, deadline, srv, closed, other, prompt>>

\* iter.Next returns the error msg
IterFail(msg) ==
    IF IsEndOfStream(msg)
    THEN IF ctxCancelled
         THEN /\ \E sendErr \in SendErrors :
                     ReturnError(<<"advice", "generation", "failed", ":">> \o sendErr)
              /\ calls' = Returned(calls, FALSE, NoResp, genCount)
              /\ sent' = sent
         ELSE /\ sent' = Append(sent, Fragment(<<>>, TRUE))
              /\ calls' = Returned(calls, TRUE, NoResp, genCount)
              /\ ReturnSuccess(<<>>)
    ELSE /\ ReturnError(<<"advice", "generation", "failed", ":",
                          "streaming", "failed", ":">> \o msg)
         /\ calls' = Returned(calls, FALSE, NoResp, genCount)
         /\ sent' = sent

\* the generation stream is exhausted: iter.Next returns iterator.Done
IterDone ==
    /\ pc = "iter_next"
    /\ iterEnd' = "done"
    /\ IterFail(IteratorDone)
    /\ UNCHANGED <<mode, cities, i, coord, weatherData, weatherRequests, cancelVars,
                   genCount, cliVars, frame>>

\* the generation backend fails: iter.Next returns its error
IterError(msg) ==
    /\ pc = "iter_next"
    /\ iterEnd' = "error"
    /\ IterFail(msg)
    /\ UNCHANGED <<mode, cities, i, coord, weatherData, weatherRequests, cancelVars,
                   genCount, cliVars, frame>>

\* the context of the generation stream is cancelled: iter.Next returns that
IterCanceled ==
    /\ pc = "iter_next"
    /\ ctxCancelled
    /\ iterEnd' = "canceled"
    /\ IterFail(ErrCanceled)
    /\ UNCHANGED <<mode, cities, i, coord, weatherData, weatherRequests, cancelVars,
                   genCount, cliVars, frame>>

\* the caller's deadline expires or the caller disconnects: the request
\* context is done from now on
CallerCancel ==
    /\ pc \notin {"idle", "done", "crashed"}
    /\ ~ctxCancelled
    /\ ctxCancelled' = TRUE
    /\ cancelPc' = pc
    /\ cancelCalls' = Len(calls)
    /\ cancelGen' = genCount
    /\ cancelSent' = Len(sent)
    /\ UNCHANGED <<mode, cities, pc, i, coord, weatherData, calls, sent, result,
                   advisorRequests, weatherRequests, iterEnd, genCount, cliVars, frame>>

\* log.Fatal: the message is logged and os.Exit(1) ends the process at
\* once; deferred calls (main's defer advisorSvc.Close()) are not run
LogFatal ==
    /\ srv' = "exited"
    /\ closed' = closed

\* s.Serve(lis) returns in main (or http.ListenAndServe in the metrics
\* goroutine) and its value is handed to log.Fatal; a handler that is
\* running ends with the process
ServeReturns ==
    /\ srv = "serving"
    /\ LogFatal
    /\ pc' = IF pc \in {"idle", "done", "crashed"} THEN pc ELSE "crashed"
    /\ UNCHANGED <<mode, cities, i, coord, weatherData, calls, sent, result,
                   advisorRequests, weatherRequests, cancelVars, iterEnd, genCount,
                   cliVars, deadline, genTexts, genFirst, other, prompt>>

(***************************************************************************)
(* The CLI's getStreamingAdvice: the Recv loop over the fragment stream.   *)
(***************************************************************************)
ErrDeadline ==
    <<"rpc error:", "code = DeadlineExceeded", "desc =", "context", "deadline", "exceeded">>
ErrServerGone ==
    <<"rpc error:", "code = Unavailable", "desc =", "error", "reading", "from",
      "server", ":", "EOF">>

\* what stream.Recv can return now: [kind, err]; the fragments arrive in
\* order, the status of the call after them
RecvResults ==
    (IF cliNext <= Len(sent) THEN {[kind |-> "msg", err |-> <<>>]} ELSE {})
    \cup (IF cliNext > Len(sent) /\ pc = "done" /\ result.status = "ok"
          THEN {[kind |-> "EOF", err |-> <<>>]} ELSE {})
    \cup (IF cliNext > Len(sent) /\ pc = "done" /\ result.status = "error"
          THEN {[kind |-> "err",
                 err |-> <<"rpc error:", "code = Unknown", "desc =">> \o result.err]}
          ELSE {})
    \cup (IF cliNext > Len(sent) /\ pc = "crashed"
          THEN {[kind |-> "err", err |-> ErrServerGone]} ELSE {})
    \cup (IF ctxCancelled THEN {[kind |-> "err", err |-> ErrDeadline]} ELSE {})

\* the errors after which getStreamingAdvice leaves its loop by break
CliBreaksOn(err) ==
    \/ Contains(err, <<"context", "canceled">>)
    \/ Contains(err, <<"connection", "is", "closing">>)
    \/ Contains(err, <<"streaming", "failed">>)

\* one iteration of the loop; after a break the CLI prints "Advice complete!"
CliRecv(r) ==
    /\ cliPc = "recv"
    /\ CASE r.kind = "EOF" ->
              /\ cliPc' = "complete"
              /\ UNCHANGED <<cliNext, cliGotFinal>>
         [] r.kind = "err" ->
              /\ cliPc' = IF CliBreaksOn(r.err) THEN "complete" ELSE "failed"
              /\ UNCHANGED <<cliNext, cliGotFinal>>
         [] r.kind = "msg" ->
              /\ cliNext' = cliNext + 1
              /\ IF sent[cliNext].IsComplete
                 THEN cliPc' = "complete" /\ cliGotFinal' = TRUE
                 ELSE UNCHANGED <<cliPc, cliGotFinal>>
    /\ UNCHANGED <<mode, cities, pc, i, coord, weatherData, calls, sent, result,
                   advisorRequests, weatherRequests, cancelVars, iterEnd, genCount, frame>>

CityLists == UNION {[1..n -> CityNames] : n \in 0..MaxCities}

Next ==
    \/ \E m \in {"unary", "stream"}, cs \in CityLists : StartRequest(m, cs, FALSE)
    \/ ResolveCity
    \/ \E resp \in GeoResponses : GeocodeReturn(resp)
    \/ FetchStart
    \/ \E resp \in WeatherResponses : FetchReturn(resp)
    \/ Compose
    \/ \E cands \in CandSeqs : GenerateReturn(<<>>, cands)
    \/ \E err \in {ErrCanceled} \cup BackendErrors : GenerateReturn(err, <<>>)
    \/ \E cands \in CandSeqs : IterResponse(cands)
    \/ IterDone
    \/ \E msg \in BackendErrors : IterError(msg)
    \/ IterCanceled
    \/ CallerCancel

Spec == Init /\ [][Next]_vars

\* resolution, fetch and prompt assembly over all city lists and upstream
\* answers, with a generation backend that answers with one text
DataCands == <<Content(<<TextPart(<<"Bring">>)>>)>>

NextData ==
    \/ \E m \in {"unary", "stream"}, cs \in CityLists : StartRequest(m, cs, FALSE)
    \/ ResolveCity
    \/ \E resp \in GeoResponses : GeocodeReturn(resp)
    \/ FetchStart
    \/ \E resp \in WeatherResponses : FetchReturn(resp)
    \/ Compose
    \/ GenerateReturn(<<>>, DataCands)
    \/ IterResponse(DataCands)
    \/ IterDone

SpecData == Init /\ [][NextData]_vars

\* the server process from NewAdvisorService to its exit
NextMain ==
    \/ Next
    \/ ServeReturns

SpecMain == Init /\ [][NextMain]_vars

\* the caller's deadline expires
DeadlineExpires == deadline /\ CallerCancel

\* What the scheduling guarantees: the handler's own steps are taken, the
\* two HTTP clients give up after their 10 s Timeout, a deadline that was
\* set expires, and a call on a cancelled context returns.  Nothing makes
\* the generation backend answer.
Fairness ==
    /\ WF_vars(ResolveCity)
    /\ WF_vars(\E resp \in GeoResponses : GeocodeReturn(resp))
    /\ WF_vars(FetchStart)
    /\ WF_vars(\E resp \in WeatherResponses : FetchReturn(resp))
    /\ WF_vars(Compose)
    /\ WF_vars(DeadlineExpires)
    /\ WF_vars(GenerateReturn(ErrCanceled, <<>>))
    /\ WF_vars(IterCanceled)

\* the callers of Next pass context.Background(); NextLive adds the callers
\* that set a deadline
NextLive ==
    \/ \E m \in {"unary", "stream"}, cs \in CityLists : StartRequest(m, cs, TRUE)
    \/ Next

SpecLive == Init /\ [][NextLive]_vars /\ Fairness

(***************************************************************************)
(* Two requests at once.  grpc runs every call in a goroutine of its own;  *)
(* the variables above are the locals of the goroutine that is running,    *)
(* other holds those of the second one.  The counters and the process      *)
(* state are the only state both goroutines reach.                         *)
(***************************************************************************)
\* the summaries all goroutines would see if weatherData were one slice of
\* the service instead of a local of the handler
SharedSummaries(r) == weatherData

\* var weatherData []string in the handler: each call has its own
SummariesOf(r) == r.weatherData

\* the scheduler runs the other goroutine
Switch ==
    /\ other' = Locals
    /\ mode' = other.mode
    /\ cities' = other.cities
    /\ pc' = other.pc
    /\ i' = other.i
    /\ coord' = other.coord
    /\ weatherData' = SummariesOf(other)
    /\ calls' = other.calls
    /\ sent' = other.sent
    /\ result' = other.result
    /\ ctxCancelled' = other.ctxCancelled
    /\ cancelPc' = other.cancelPc
    /\ cancelCalls' = other.cancelCalls
    /\ cancelGen' = other.cancelGen
    /\ cancelSent' = other.cancelSent
    /\ iterEnd' = other.iterEnd
    /\ genCount' = other.genCount
    /\ cliPc' = other.cliPc
    /\ cliNext' = other.cliNext
    /\ cliGotFinal' = other.cliGotFinal
    /\ deadline' = other.deadline
    /\ genTexts' = other.genTexts
    /\ genFirst' = other.genFirst
    /\ prompt' = other.prompt
    /\ UNCHANGED <<advisorRequests, weatherRequests, srv, closed>>

\* the requests and upstream answers of the two-request runs
ConcCityLists == {<<"New York">>, <<"london">>}
ConcGeoResponses == {r \in GeoResponses : r.err \/ r.bodyOk}
ConcWeatherResponses == {r \in WeatherResponses : r.StatusCode # StatusOK \/ r.bodyOk}
ConcCandSeqs ==
    {<<>>,
     <<Content(<<TextPart(<<"Bring">>)>>)>>,
     <<Content(<<TextPart(<<"Bring">>), TextPart(<<"umbrella">>)>>)>>}

NextConc ==
    \/ \E m \in {"unary", "stream"}, cs \in ConcCityLists : StartRequest(m, cs, FALSE)
    \/ ResolveCity
    \/ \E resp \in ConcGeoResponses : GeocodeReturn(resp)
    \/ FetchStart
    \/ \E resp \in ConcWeatherResponses : FetchReturn(resp)
    \/ Compose
    \/ \E cands \in ConcCandSeqs : GenerateReturn(<<>>, cands)
    \/ GenerateReturn(ErrQuota, <<>>)
    \/ \E cands \in ConcCandSeqs : IterResponse(cands)
    \/ IterDone
    \/ IterError(ErrUnexpectedEOF)
    \/ Switch

SpecConc == Init /\ [][NextConc]_vars

(***************************************************************************)
(* The CLI as the caller: getAdvice only sends names of its own            *)
(* availableCities table, so none of them reaches the geocoding backend.   *)
(***************************************************************************)
\* the names of CityNames that are keys of the CLI's availableCities
CliCityNames == CityNames \cap
    {"New York", "London", "Tokyo", "Paris", "Los Angeles", "Chicago", "Sydney",
     "Berlin", "Toronto", "Mumbai", "Dubai", "Singapore", "San Francisco", "Miami",
     "Barcelona"}

CliCityLists == UNION {[1..n -> CliCityNames] : n \in 1..MaxCities}

NextCli ==
    \/ \E cs \in CliCityLists : StartRequest("stream", cs, TRUE)
    \/ ResolveCity
    \/ FetchStart
    \/ \E resp \in WeatherResponses : FetchReturn(resp)
    \/ Compose
    \/ \E cands \in CandSeqs : IterResponse(cands)
    \/ IterDone
    \/ \E msg \in BackendErrors : IterError(msg)
    \/ IterCanceled
    \/ CallerCancel
    \/ \E r \in RecvResults : CliRecv(r)

SpecCli == Init /\ [][NextCli]_vars

(***************************************************************************)
(* Properties.                                                             *)
(***************************************************************************)
\* s begins with pre
HasPrefix(s, pre) == Len(pre) <= Len(s) /\ SubSeq(s, 1, Len(pre)) = pre

\* the handler has called op for city j
Issued(op, j) == \E k \in DOMAIN calls : calls[k].op = op /\ calls[k].city = j

\* op for city j has returned without error
Succeeded(op, j) ==
    \E k \in DOMAIN calls : calls[k].op = op /\ calls[k].city = j /\ calls[k].st = "ok"

\* generateAdvice or streamAdviceGeneration has been called
ComposerInvoked ==
    \E k \in DOMAIN calls : calls[k].op \in {"generate", "generateStream"}

\* the handler returned an error and gave the caller no advice text
FailedWithoutAdvice ==
    /\ pc = "done"
    /\ result.status = "error"
    /\ result.advice = <<>>
    /\ sent = <<>>

\* C1: the composer is invoked only after every city of the request has been
\* resolved and its weather fetched, with one summary per city; once a
\* resolution or a fetch has failed the composer is never invoked and the
\* request has returned an error without advice text.
C1_ComposeOnlyAfterAllCities ==
    /\ ComposerInvoked =>
          /\ Len(weatherData) = Len(cities)
          /\ \A j \in 1..Len(cities) : Succeeded("resolve", j) /\ Succeeded("fetch", j)
    /\ (\E k \in DOMAIN calls : calls[k].st = "fail" /\ calls[k].city > 0) =>
          ~ComposerInvoked /\ FailedWithoutAdvice

\* C1 witness: a two-city request, one city geocoded remotely, has reached
\* its composer and returned
C1_Witness ==
    /\ pc = "done"
    /\ ComposerInvoked
    /\ cities = <<"New York", "london">>

\* C2 (as claimed): a StreamAdvice call whose cities all resolved and fetched
\* and whose generation iterator ended by exhaustion (iterator.Done), the
\* caller still connected, has sent non-final fragments followed by exactly
\* one final fragment with empty text, and has returned success.
C2_ExhaustionEndsWithFinalFragment ==
    (pc = "done" /\ mode = "stream" /\ iterEnd = "done" /\ ~ctxCancelled
       /\ Len(cities) >= 1) =>
        /\ result.status = "ok"
        /\ Len(sent) >= 1
        /\ sent[Len(sent)] = Fragment(<<>>, TRUE)
        /\ \A k \in 1..(Len(sent) - 1) : ~sent[k].IsComplete

\* C3 (as claimed): when the generation iterator returned an error other than
\* its end-of-stream value, whatever its text, no final fragment has been
\* sent and StreamAdvice has returned an error.
C3_BackendErrorSendsNoFinalFragment ==
    (pc = "done" /\ mode = "stream" /\ iterEnd = "error" /\ Len(cities) >= 1) =>
        /\ result.status = "error"
        /\ \A k \in DOMAIN sent : ~sent[k].IsComplete

\* C4: once the weather provider has answered a city's request with a
\* non-success status, the handler (GetAdvice or StreamAdvice) has returned
\* an error that names that city, and no fragment at all has been sent.
C4_WeatherStatusFailureNamesCity ==
    \A k \in DOMAIN calls :
        (calls[k].op = "fetch" /\ calls[k].st # "pending" /\ ~calls[k].resp.err
           /\ calls[k].resp.StatusCode # StatusOK) =>
            /\ pc = "done"
            /\ result.status = "error"
            /\ HasPrefix(result.err,
                         <<"weather", "request", "failed", "for", cities[calls[k].city], ":">>)
            /\ sent = <<>>

\* C4 witness: StreamAdvice has returned after the provider refused the
\* second city, whose name differs from the first
C4_Witness ==
    /\ pc = "done"
    /\ mode = "stream"
    /\ cities = <<"New York", "london">>
    /\ \E k \in DOMAIN calls :
          /\ calls[k].op = "fetch" /\ calls[k].city = 2
          /\ ~calls[k].resp.err /\ calls[k].resp.StatusCode = 503

\* C5: once the geocoding backend has answered with zero results for a city
\* absent from the curated table, the call has failed with the not-found
\* error for that city, no weather fetch was issued for that city, and the
\* generation backend was never called.
C5_UnknownCityNotFound ==
    \A k \in DOMAIN calls :
        (calls[k].op = "geocodeHTTP" /\ calls[k].st # "pending" /\ ~calls[k].resp.err
           /\ calls[k].resp.StatusCode = StatusOK /\ calls[k].resp.bodyOk
           /\ calls[k].resp.n = 0) =>
            /\ pc = "done"
            /\ result.status = "error"
            /\ Contains(result.err,
                        <<"location", "not", "found", ":", cities[calls[k].city]>>)
            /\ ~Issued("fetch", calls[k].city)
            /\ ~ComposerInvoked

\* C5 witness: the second city of a request is absent from the table and the
\* geocoding backend found nothing for it
C5_Witness ==
    /\ pc = "done"
    /\ cities = <<"New York", "london">>
    /\ Succeeded("fetch", 1)
    /\ \E k \in DOMAIN calls :
          /\ calls[k].op = "geocodeHTTP" /\ calls[k].city = 2
          /\ calls[k].resp.StatusCode = StatusOK /\ calls[k].resp.bodyOk
          /\ calls[k].resp.n = 0

\* C6: once the resolution or the fetch of city j has failed, no resolve and
\* no fetch is issued for any later city, and the one error returned has the
\* step that failed (geocoding or weather request) and city j at its head.
C6_FailureAbortsLaterCities ==
    \A k \in DOMAIN calls :
        (calls[k].op \in {"resolve", "fetch"} /\ calls[k].st = "fail") =>
            /\ \A n \in DOMAIN calls : calls[n].city <= calls[k].city
            /\ pc = "done"
            /\ result.status = "error"
            /\ HasPrefix(result.err,
                         (IF calls[k].op = "resolve" THEN <<"geocoding">>
                                                     ELSE <<"weather", "request">>)
                         \o <<"failed", "for", cities[calls[k].city], ":">>)

\* C6 witness: the resolution of the first of two cities failed
C6_Witness ==
    /\ pc = "done"
    /\ Len(cities) = 2
    /\ \E k \in DOMAIN calls :
          calls[k].op = "resolve" /\ calls[k].city = 1 /\ calls[k].st = "fail"

\* C7 (as claimed): when the caller cancels while the geocoding or weather
\* call of a city is in flight, the handler aborts: no resolve and no fetch
\* is started for a later city after the cancellation.
C7_CancelStopsTheCityLoop ==
    (ctxCancelled /\ cancelPc \in {"geo_wait", "fetch_wait"}) =>
        \A k \in (cancelCalls + 1)..Len(calls) :
            ~(calls[k].op \in {"resolve", "fetch"}
              /\ calls[k].city > calls[cancelCalls].city)

\* C8 (as claimed): when the caller cancels while StreamAdvice is streaming
\* and the generation backend itself did not fail, the call ends without an
\* error outcome: no error is returned and the error counter stays put.
C8_CancelWhileStreamingIsNoError ==
    (pc = "done" /\ mode = "stream" /\ ctxCancelled /\ cancelPc = "iter_next"
       /\ iterEnd # "error") =>
        /\ result.status # "error"
        /\ advisorRequests["error"] = 0

\* C9 (as claimed): a GetAdvice call with at least one city, all resolved and
\* fetched, that returns success carries a non-empty advice string.
C9_SuccessfulAdviceIsNonEmpty ==
    (pc = "done" /\ mode = "unary" /\ result.status = "ok" /\ Len(cities) >= 1) =>
        result.advice # <<>>

\* C10 (as claimed): the CLI's getStreamingAdvice reports completion only if
\* it received a fragment with IsComplete.
C10_CliCompleteOnlyAfterFinalFragment ==
    cliPc = "complete" => cliGotFinal

\* C11 (as claimed): every GetAdvice and StreamAdvice call that was started
\* eventually ends, in success or in failure, whichever client issued it and
\* even if the generation backend never answers.
C11_EveryCallTerminates ==
    (pc # "idle") ~> (pc \in {"done", "crashed"})

\* the calls of the log with one of the operations ops, for city j
CallsOf(ops, j) == {k \in DOMAIN calls : calls[k].op \in ops /\ calls[k].city = j}

C13_OutboundCallIffNotCurated ==
    \A j \in 1..Len(cities) :
        Issued("resolve", j) =>
            /\ Issued("geocodeHTTP", j) <=> cities[j] \notin CuratedNames
            /\ (cities[j] = "New York" /\ i = j /\ pc = "fetch")
                   => coord = [lat |-> 407128, lon |-> -740060]
            /\ (cities[j] \in CuratedNames /\ i = j /\ pc = "fetch")
                   => /\ coord = cityCoords[cities[j]]
                      /\ calls[Len(calls)] = [Call("resolve", j) EXCEPT !.st = "ok"]

\* C13 witness: New York was resolved from the table and the name london,
\* which differs from a key only in case, is being looked up remotely
C13_Witness ==
    /\ cities = <<"New York", "london">>
    /\ pc = "geo_wait"
    /\ i = 2
    /\ ~Issued("geocodeHTTP", 1)
    /\ calls[Len(calls)] = Call("geocodeHTTP", 2)

\* C14 (as claimed): after the generation backend has failed during
\* StreamAdvice the stream is not terminated: the handler goes on pulling
\* from the iterator and delivering fragments.
C14_StreamingErrorDoesNotEndTheStream ==
    (mode = "stream" /\ iterEnd = "error") => pc = "iter_next"

\* the calls of the log that have not returned yet
Pending == {k \in DOMAIN calls : calls[k].st = "pending"}

\* the Location label of the summary of a city: its coordinate, from the
\* table or from the geocoding backend, to two decimals
LocationOf(name) ==
    LET c == IF Lookup(name) # <<>> THEN Lookup(name)[1] ELSE GeoHit1 IN
    <<RoundDiv(c.lat, 100), RoundDiv(c.lon, 100)>>

\* C15: the cities of a request are processed strictly in input order and
\* never concurrently: the fetch for a city starts only after its resolve
\* has succeeded, the resolve for the next city only after that fetch has
\* succeeded, and the composer gets one summary per city, in input order.
C15_CitiesInInputOrder ==
    /\ \A k \in DOMAIN calls :
          /\ calls[k].op = "fetch" =>
                \E r \in 1..(k - 1) : /\ calls[r].op = "resolve"
                                       /\ calls[r].city = calls[k].city
                                       /\ calls[r].st = "ok"
          /\ (calls[k].op = "resolve" /\ calls[k].city > 1) =>
                \E f \in 1..(k - 1) : /\ calls[f].op = "fetch"
                                       /\ calls[f].city = calls[k].city - 1
                                       /\ calls[f].st = "ok"
          /\ (k < Len(calls) /\ calls[k].op \in {"resolve", "geocodeHTTP", "fetch"}) =>
                calls[k].city <= calls[k + 1].city \/ calls[k + 1].city = 0
    /\ \A k \in Pending : \A r \in Pending : calls[k].city = calls[r].city
    /\ Cardinality({k \in Pending : calls[k].op \in {"geocodeHTTP", "fetch"}}) <= 1
    /\ Len(weatherData) <= Len(cities)
    /\ \A j \in 1..Len(weatherData) : weatherData[j].City = LocationOf(cities[j])
    /\ ComposerInvoked => Len(weatherData) = Len(cities)

\* C15 witness: the composer was called with the summaries of New York and
\* london, in that order
C15_Witness ==
    /\ ComposerInvoked
    /\ cities = <<"New York", "london">>
    /\ Len(weatherData) = 2
    /\ weatherData[1].City = <<4071, -7401>>
    /\ weatherData[2].City = <<5151, -13>>

\* C16 (as claimed): once the context of a running StreamAdvice is cancelled
\* while the handler is in its generation loop, no further fragment is sent
\* and the handler stops pulling from the generation iterator: at most the
\* one pull that was already under way still returns a segment.
C16_CancelStopsSendingAndPulling ==
    (mode = "stream" /\ ctxCancelled /\ cancelPc = "iter_next") =>
        /\ Len(sent) = cancelSent
        /\ genCount <= cancelGen + 1

\* the text of the non-final fragments sent so far, in emission order
SentText ==
    ConcatAll([k \in 1..Len(sent) |-> IF sent[k].IsComplete THEN <<>> ELSE sent[k].Chunk])

\* the handler is between two pulls or has returned, and neither a
\* cancellation nor a crash has cut the stream short
StreamIntact ==
    /\ mode = "stream"
    /\ pc \in {"iter_next", "done"}
    /\ ~ctxCancelled

\* the fragments carry the backend's segments: none dropped, duplicated or
\* reordered
SegmentsPreserved == StreamIntact => SentText = genTexts

\* C17 (as claimed): the text of the non-final fragments, concatenated in
\* emission order, is the concatenation of the backend's text segments in
\* generation order, and it is the text single-shot mode returns for the
\* same backend output.
C17_FragmentsEqualSegmentsAndSingleShot ==
    StreamIntact => /\ SentText = genTexts
                    /\ SentText = genFirst

\* C18: in single-shot mode, once GenerateContent has returned no candidate,
\* GetAdvice has returned the no-response error, recorded one error outcome
\* and given no advice; a transport error of the backend ends the same way,
\* with the backend's error in the message.
C18_NoCandidateOrTransportErrorFails ==
    \A k \in DOMAIN calls :
        (calls[k].op = "generate" /\ calls[k].st # "pending"
           /\ (calls[k].resp.err \/ calls[k].resp.n = 0)) =>
            /\ pc = "done"
            /\ result.status = "error"
            /\ result.advice = <<>>
            /\ advisorRequests = [success |-> 0, error |-> 1]
            /\ IF calls[k].resp.err
               THEN HasPrefix(result.err, <<"advice", "generation", "failed", ":",
                                            "Gemini", "API", "failed", ":">>)
               ELSE result.err = <<"advice", "generation", "failed", ":",
                                   "no", "response", "generated">>

\* C18 witness: GetAdvice for two cities has returned after the backend
\* answered without any candidate
C18_Witness ==
    /\ pc = "done"
    /\ mode = "unary"
    /\ Len(cities) = 2
    /\ calls[Len(calls)].op = "generate"
    /\ ~calls[Len(calls)].resp.err
    /\ calls[Len(calls)].resp.n = 0
    /\ Contains(result.err, <<"no", "response", "generated">>)

\* C19 (as claimed): the handle to the generative backend is closed exactly
\* once at shutdown: once the server process has stopped, by whatever path,
\* advisorSvc.Close has run once, and it never runs while the server is
\* still serving.
C19_HandleClosedOnceAtShutdown ==
    /\ srv = "exited" => closed = 1
    /\ srv = "serving" => closed = 0

\* how many calls of request r with operation op ended with st
Count(r, op, st) ==
    Cardinality({k \in DOMAIN r.calls : r.calls[k].op = op /\ r.calls[k].st = st})

\* request r has returned with status st: 1, otherwise 0
Outcome(r, st) == IF r.pc = "done" /\ r.result.status = st THEN 1 ELSE 0

\* the text of the non-final fragments request r has sent
TextSentBy(r) ==
    ConcatAll([k \in 1..Len(r.sent) |->
                  IF r.sent[k].IsComplete THEN <<>> ELSE r.sent[k].Chunk])

\* the state of request r is accounted for by its own cities and its own
\* upstream answers
OwnStateOnly(r) ==
    /\ r.pc = "idle" => r = NoRequest
    /\ \A k \in DOMAIN r.calls : r.calls[k].city <= Len(r.cities)
    /\ Len(r.weatherData) = Count(r, "fetch", "ok")
    /\ Len(r.weatherData) <= Len(r.cities)
    /\ \A j \in 1..Len(r.weatherData) : r.weatherData[j].City = LocationOf(r.cities[j])
    /\ r.pc \in {"gen_wait", "iter_next"} => Len(r.weatherData) = Len(r.cities)
    /\ \A k \in DOMAIN r.calls :
          /\ (r.calls[k].op = "geocodeHTTP" /\ r.calls[k].st = "fail") =>
                /\ r.pc = "done"
                /\ HasPrefix(r.result.err,
                     <<"geocoding", "failed", "for", r.cities[r.calls[k].city], ":">>)
          /\ (r.calls[k].op = "fetch" /\ r.calls[k].st = "fail") =>
                /\ r.pc = "done"
                /\ HasPrefix(r.result.err,
                     <<"weather", "request", "failed", "for",
                       r.cities[r.calls[k].city], ":">>)
    /\ (r.pc = "done" /\ r.result.status = "ok") =>
          /\ Len(r.weatherData) = Len(r.cities)
          /\ r.mode = "unary" => r.sent = <<>> /\ r.genTexts = <<>>
          /\ r.mode = "stream" => r.result.advice = <<>>
    /\ r.mode = "stream" => TextSentBy(r) = r.genTexts

\* C20: two requests that run at once are independent: under every
\* interleaving the state and the result of each is accounted for by its own
\* cities and upstream answers, as when it runs alone, and the shared
\* counters count every outcome and every weather fetch exactly once.
C20_ConcurrentRequestsIndependent ==
    /\ OwnStateOnly(Locals)
    /\ OwnStateOnly(other)
    /\ advisorRequests = [success |-> Outcome(Locals, "ok") + Outcome(other, "ok"),
                          error |-> Outcome(Locals, "error") + Outcome(other, "error")]
    /\ weatherRequests =
          [success |-> Count(Locals, "fetch", "ok") + Count(other, "fetch", "ok"),
           error |-> Count(Locals, "fetch", "fail") + Count(other, "fetch", "fail")]

\* C20 witness: a request for london waits for its weather while a request
\* for New York, started before it, is streaming its advice
C20_Witness ==
    /\ pc = "fetch_wait"
    /\ cities = <<"london">>
    /\ other.pc = "iter_next"
    /\ other.cities = <<"New York">>
    /\ other.sent # <<>>
    /\ weatherRequests["success"] = 1

\* the summaries a prompt body carries, in order
RECURSIVE LinesOf(_)
LinesOf(body) ==
    IF body = <<>> THEN <<>>
    ELSE (IF Head(body).sep THEN <<>> ELSE <<Head(body).line>>) \o LinesOf(Tail(body))

\* C21: both composers build the same prompt from the same summaries: the
\* prompt submitted is what generateAdvice builds and what
\* streamAdviceGeneration builds from them, and it carries every summary,
\* one line per city, in input order.
C21_BothModesBuildTheSamePrompt ==
    ComposerInvoked =>
        /\ prompt = generateAdvicePrompt(weatherData)
        /\ prompt = streamAdviceGenerationPrompt(weatherData)
        /\ LinesOf(prompt.body) = weatherData
        /\ \A k \in DOMAIN prompt.body : prompt.body[k].sep <=> k % 2 = 0
        /\ Len(prompt.body) % 2 = (IF weatherData = <<>> THEN 0 ELSE 1)
        /\ \A j \in 1..Len(weatherData) :
              prompt.body[2 * j - 1].line.City = LocationOf(cities[j])

\* C21 witness: StreamAdvice has submitted the prompt with the summaries of
\* New York and london on two lines
C21_Witness ==
    /\ mode = "stream"
    /\ pc = "iter_next"
    /\ cities = <<"New York", "london">>
    /\ Len(prompt.body) = 3
    /\ prompt.body[1].line.City = <<4071, -7401>>
    /\ prompt.body[2] = Newline
    /\ prompt.body[3].line.City = <<5151, -13>>

\* C22: every completed call records exactly one outcome: a GetAdvice or
\* StreamAdvice call that has returned has incremented exactly one of the
\* advisor counters, once, success exactly if it returned without error,
\* and none before it returns; every GetCurrentWeather call that has
\* returned has likewise incremented one weather counter once.
C22_OneOutcomePerCall ==
    /\ advisorRequests =
          [success |-> IF pc = "done" /\ result.status = "ok" THEN 1 ELSE 0,
           error   |-> IF pc = "done" /\ result.status = "error" THEN 1 ELSE 0]
    /\ pc = "done" => result.status \in {"ok", "error"}
    /\ weatherRequests =
          [success |-> Cardinality({k \in DOMAIN calls :
                                      calls[k].op = "fetch" /\ calls[k].st = "ok"}),
           error   |-> Cardinality({k \in DOMAIN calls :
                                      calls[k].op = "fetch" /\ calls[k].st = "fail"})]

\* C22 witness: a call has returned an error after the second city's
\* weather fetch failed: one advisor error, one weather success, one weather
\* error
C22_Witness ==
    /\ pc = "done"
    /\ result.status = "error"
    /\ advisorRequests = [success |-> 0, error |-> 1]
    /\ weatherRequests = [success |-> 1, error |-> 1]

\* C23 (as claimed): the composer is invoked only with at least one weather
\* summary; a request with an empty city list never reaches the generation
\* backend.
C23_ComposerNeedsASummary ==
    ComposerInvoked => (Len(cities) >= 1 /\ Len(weatherData) >= 1)

\* C24 (as claimed): whatever response the generation backend returns, a
\* candidate without content or without text parts included, the handler
\* ends by returning a result or an error and never crashes.
C24_HandlerNeverCrashes ==
    /\ pc # "crashed"
    /\ result.status # "panic"

\* getWeatherDescription over all codes -1..MaxCode
AllCodesMapped ==
    /\ \A c \in -1..MaxCode :
          /\ c \in MappedCodes => /\ getWeatherDescription(c) = descriptions[c]
                                   /\ getWeatherDescription(c) \notin {"unknown", ""}
          /\ c \notin MappedCodes => getWeatherDescription(c) = "unknown"
    /\ getWeatherDescription(0) = "clear sky"
    /\ getWeatherDescription(95) = "thunderstorm"
    /\ getWeatherDescription(42) = "unknown"

\* C25: every weather code of the provider is mapped through the fixed
\* table to its description and every code outside the table to "unknown";
\* a decodable 200 answer never makes GetCurrentWeather fail, whatever its
\* code, and the summary carries the description of the code received.
\* (The function does not depend on the state: it is evaluated over all
\* codes before a request, and on the codes received afterwards.)
C25_UnmappedCodeIsUnknown ==
    /\ pc = "idle" => AllCodesMapped
    /\ \A k \in DOMAIN calls :
          (calls[k].op = "fetch" /\ calls[k].st # "pending" /\ ~calls[k].resp.err
             /\ calls[k].resp.StatusCode = StatusOK /\ calls[k].resp.bodyOk) =>
              calls[k].st = "ok"
    /\ \A j \in 1..Len(weatherData) :
          \E r \in Readings :
              /\ weatherData[j].Humidity = r.Humidity
              /\ weatherData[j].Temp = RoundDiv(r.Temperature, 10)
              /\ weatherData[j].Condition =
                    IF r.WeatherCode \in MappedCodes THEN descriptions[r.WeatherCode]
                                                     ELSE "unknown"

\* C25 witness: the fetch for the first city was answered with the unmapped
\* code 42 and succeeded; its summary says "unknown"
C25_Witness ==
    /\ Len(weatherData) >= 1
    /\ weatherData[1].Condition = "unknown"
    /\ weatherData[1].Humidity = 93
    /\ \E k \in DOMAIN calls : calls[k].op = "fetch" /\ calls[k].city = 1 /\ calls[k].st = "ok"
    /\ weatherRequests = [success |-> 1, error |-> 0]

====
